---- MODULE Spec2Model ----
(***************************************************************************)
(* AthenaQueryResultCollector (src/src/index.ts): bulk collection,         *)
(* streaming and batch processing over a pager that returns one page of    *)
(* rows and an optional continuation token per fetch.                      *)
(*                                                                         *)
(* One collector instance and one pager.  The pager is the external        *)
(* collaborator: it holds a finite chain of pages and every fetch may fail.*)
(* A JavaScript value that may be undefined is a record [kind, v]; a       *)
(* continuation token is the number of the page it leads to, 0 standing    *)
(* for undefined (no token).  A row is the pair <<page, position>>.        *)
(***************************************************************************)
EXTENDS Integers, Sequences, FiniteSets, TLC

\* ---------------------------------------------------------------- bounds
MaxPages == 2
MaxPageLen == 2
MaxMaxRows == 3
NegMaxRows == 1
MaxRetry == 1

\* ------------------------------------------------------ program constants
DefaultRetryCount == 0
DefaultRetryDelayMs == 1000
CustomDelayMs == 10

\* ------------------------------------------------------- JavaScript values
Absent == [kind |-> "absent", v |-> 0]
Undefined == [kind |-> "undefined", v |-> 0]
Num(n) == [kind |-> "number", v |-> n]

IsDefined(x) == x.kind = "number"

\* a ?? b on an option key: the key's value when it is neither missing nor undefined
Coalesce(x, d) == IF x.kind = "number" THEN x ELSE Num(d)

\* { k: computed, ...options }: an own key of options, even one holding undefined,
\* overwrites the computed value
Spread(computed, x) == IF x.kind = "absent" THEN computed ELSE x

\* a <= b and a < b for a number a and a b that may be undefined (NaN compares false)
Lte(a, b) == IF b.kind = "number" THEN a <= b.v ELSE FALSE
Lt(a, b) == IF b.kind = "number" THEN a < b.v ELSE FALSE

Min(a, b) == IF a < b THEN a ELSE b
Max(a, b) == IF a > b THEN a ELSE b

\* Slice with its end taken one too far
SliceOneMore(s, end) == SubSeq(s, 1, Min(Max(end + 1, 0), Len(s)))

\* Array.prototype.slice(0, end): a negative end counts from the end of the array
Slice(s, end) ==
    LET n == Len(s)
        e == IF end < 0 THEN Max(n + end, 0) ELSE Min(end, n)
    IN  SubSeq(s, 1, e)

NoToken == 0

\* a loop condition that holds whatever the token
TruthyAlways(tok) == TRUE

\* while (nextToken): undefined is falsy, a token is truthy
Truthy(tok) == tok # NoToken

NoError == 0
CallbackError == -1

\* ------------------------------------------------------------------ state
VARIABLES
    rawOptions,   \* the options object given to the constructor
    options,      \* this.options, as the constructor resolved it
    chain,        \* the pager's data: the row count of each page of the query
    mode,         \* the public method of the current invocation
    pc,           \* where the invocation stands
    rows,         \* collectWith: rows
    nextToken,    \* nextToken of the running loop
    pageCount,    \* collectWith, processBatches: pageCount
    truncated,    \* collectWith: truncated
    count,        \* stream: count
    totalRows,    \* processBatches: totalRows
    page,         \* the page the last fetch returned (its number in the chain)
    rowIdx,       \* stream: position of the for-of loop in page.rows
    attempt,      \* fetchPageWithRetry: attempt
    lastError,    \* fetchPageWithRetry: lastError
    result,       \* what the invocation returned
    error,        \* what the invocation threw
    pagerLog,     \* the calls made to the pager in this invocation
    roundLog,     \* the fetch calls of the current fetchPageWithRetry call
    sleeps,       \* the sleeps of this invocation: duration and position
    onPageLog,    \* the onPage calls of this invocation
    batchLog,     \* the batchProcessor calls of this invocation
    yielded,      \* the rows the consumer of stream received
    otherPc,      \* where a second invocation on the same instance stands
    otherToken,   \* nextToken of the second invocation's loop
    overlapped    \* the two invocations were in progress at the same time

vars == <<rawOptions, options, chain, mode, pc, rows, nextToken, pageCount,
          truncated, count, totalRows, page, rowIdx, attempt, lastError, result,
          error, pagerLog, roundLog, sleeps, onPageLog, batchLog, yielded,
          otherPc, otherToken, overlapped>>

\* ------------------------------------------------------------- constructor
MaxRowsChoices == {Absent} \cup {Num(n) : n \in (0 - NegMaxRows)..MaxMaxRows}
RetryCountChoices == {Absent, Undefined} \cup {Num(n) : n \in 0..MaxRetry}
RetryDelayChoices == {Absent, Num(CustomDelayMs)}

RawOptionsSet ==
    [maxRows : MaxRowsChoices, onPage : BOOLEAN,
     retryCount : RetryCountChoices, retryDelayMs : RetryDelayChoices]

Constructor(o) ==
    [maxRows |-> Spread(IF o.maxRows.kind = "absent" THEN Undefined ELSE o.maxRows,
                        o.maxRows),
     onPage |-> o.onPage,
     retryCount |-> Spread(Coalesce(o.retryCount, DefaultRetryCount), o.retryCount),
     retryDelayMs |-> Spread(Coalesce(o.retryDelayMs, DefaultRetryDelayMs),
                             o.retryDelayMs)]

\* ------------------------------------------------------------------- pager
Chains == UNION {[1..n -> 0..MaxPageLen] : n \in 1..MaxPages}

PageRows(i) == [j \in 1..chain[i] |-> <<i, j>>]
PageToken(i) == IF i < Len(chain) THEN i + 1 ELSE NoToken

\* pager.fetchPageWith(id, rowParser, nextToken) when it resolves: the first page
\* without a token, the page the token leads to with one
PagerFetch(tok) == IF tok = NoToken THEN 1 ELSE tok

\* the calls the shared pager receives, each with the invocation that made it
First == "first"
Second == "second"
ResetEvent ==
    [op |-> "reset", token |-> NoToken, ok |-> TRUE, val |-> 0, by |-> First]
FetchEvent(tok, ok, val) ==
    [op |-> "fetch", token |-> tok, ok |-> ok, val |-> val, by |-> First]

NoResult == [pending |-> TRUE]

Init ==
    /\ rawOptions \in RawOptionsSet
    /\ options = Constructor(rawOptions)
    /\ chain \in Chains
    /\ mode = "none"
    /\ pc = "idle"
    /\ rows = <<>>
    /\ nextToken = NoToken
    /\ pageCount = 0
    /\ truncated = FALSE
    /\ count = 0
    /\ totalRows = 0
    /\ page = 0
    /\ rowIdx = 0
    /\ attempt = 0
    /\ lastError = NoError
    /\ result = NoResult
    /\ error = NoError
    /\ pagerLog = <<>>
    /\ roundLog = <<>>
    /\ sleeps = <<>>
    /\ onPageLog = <<>>
    /\ batchLog = <<>>
    /\ yielded = <<>>
    /\ otherPc = "idle"
    /\ otherToken = NoToken
    /\ overlapped = FALSE

\* the second invocation has reset the pager and has not returned yet
OtherRunning == otherPc \in {"started", "fetched"}

\* ------------------------------------------------------ fetchPageWithRetry
\* entry of fetchPageWithRetry: let lastError; attempt = 0
BeginFetch ==
    /\ pc' = "fetch"
    /\ attempt' = 0
    /\ lastError' = NoError
    /\ roundLog' = <<>>

\* a retry loop without an end: for (;;), retried until the pager gives a page
MayAttemptForever == TRUE

\* loop condition of the retry loop: attempt <= this.options.retryCount
MayAttempt == Lte(attempt, options.retryCount)

\* a retry loop that sleeps after every failed attempt, the last one included
SleepsAfterEveryFailure == MayAttempt

\* the condition under which a failed attempt sleeps: attempt < this.options.retryCount
SleepsAfterFailure == Lt(attempt, options.retryCount)

\* a catch block that keeps the first error of the call
CaughtFirst(previous, e) == IF previous = NoError THEN e ELSE previous

\* what the catch block keeps in lastError: the error just caught
Caught(previous, e) == e

\* an attempt whose pager call resolves: the page is returned to the loop
FetchOk ==
    /\ pc = "fetch"
    /\ MayAttempt
    /\ page' = PagerFetch(nextToken)
    /\ pagerLog' = Append(pagerLog, FetchEvent(nextToken, TRUE, PagerFetch(nextToken)))
    /\ roundLog' = Append(roundLog, FetchEvent(nextToken, TRUE, PagerFetch(nextToken)))
    /\ pc' = "page"
    /\ UNCHANGED <<otherPc, otherToken, overlapped>>
    /\ UNCHANGED <<rawOptions, options, chain, mode, rows, nextToken, pageCount,
                   truncated, count, totalRows, rowIdx, attempt, lastError, result,
                   error, sleeps, onPageLog, batchLog, yielded>>

\* an attempt whose pager call rejects; each rejection is an error of its own,
\* numbered by the call that raised it
FetchFail ==
    /\ pc = "fetch"
    /\ MayAttempt
    /\ LET e == Len(pagerLog) + 1
       IN  /\ lastError' = Caught(lastError, e)
           /\ pagerLog' = Append(pagerLog, FetchEvent(nextToken, FALSE, e))
           /\ roundLog' = Append(roundLog, FetchEvent(nextToken, FALSE, e))
    /\ IF SleepsAfterFailure
       THEN pc' = "sleep" /\ attempt' = attempt
       ELSE pc' = "fetch" /\ attempt' = attempt + 1
    /\ UNCHANGED <<otherPc, otherToken, overlapped>>
    /\ UNCHANGED <<rawOptions, options, chain, mode, rows, nextToken, pageCount,
                   truncated, count, totalRows, page, rowIdx, result, error, sleeps,
                   onPageLog, batchLog, yielded>>

\* a finished sleep of ms milliseconds, with the number of pager calls made before it
SleepEvent(ms) == [ms |-> ms, after |-> Len(pagerLog)]

\* await this.sleep(this.options.retryDelayMs), then attempt++
Sleep ==
    /\ pc = "sleep"
    /\ sleeps' = Append(sleeps, SleepEvent(options.retryDelayMs))
    /\ attempt' = attempt + 1
    /\ pc' = "fetch"
    /\ UNCHANGED <<otherPc, otherToken, overlapped>>
    /\ UNCHANGED <<rawOptions, options, chain, mode, rows, nextToken, pageCount,
                   truncated, count, totalRows, page, rowIdx, lastError, result,
                   error, pagerLog, roundLog, onPageLog, batchLog, yielded>>

\* a failure that hands the rows collected so far to the caller along with the error
FetchExhaustedPartial ==
    /\ pc = "fetch"
    /\ ~MayAttempt
    /\ pc' = "failed"
    /\ error' = lastError
    /\ result' = [rows |-> rows, totalRows |-> Len(rows), pageCount |-> pageCount,
                  truncated |-> truncated]
    /\ UNCHANGED <<otherPc, otherToken, overlapped>>
    /\ UNCHANGED <<rawOptions, options, chain, mode, rows, nextToken, pageCount,
                   truncated, count, totalRows, page, rowIdx, attempt, lastError,
                   pagerLog, roundLog, sleeps, onPageLog, batchLog, yielded>>

\* the loop condition fails: throw lastError, out of the public method
FetchExhausted ==
    /\ pc = "fetch"
    /\ ~MayAttempt
    /\ pc' = "failed"
    /\ error' = lastError
    /\ UNCHANGED <<otherPc, otherToken, overlapped>>
    /\ UNCHANGED <<rawOptions, options, chain, mode, rows, nextToken, pageCount,
                   truncated, count, totalRows, page, rowIdx, attempt, lastError,
                   result, pagerLog, roundLog, sleeps, onPageLog, batchLog, yielded>>

\* ---------------------------------------------------- collect / collectWith
\* CollectStep with the page's rows put in front of the rows collected so far
CollectStepPrepend(st, p) ==
    LET pr == PageRows(p)
        remaining == options.maxRows.v - Len(st.rows)
    IN  IF IsDefined(options.maxRows) /\ Len(pr) >= remaining
        THEN [rows |-> Slice(pr, remaining) \o st.rows,
              pageCount |-> st.pageCount + 1, truncated |-> TRUE, brk |-> TRUE]
        ELSE [rows |-> pr \o st.rows,
              pageCount |-> st.pageCount + 1, truncated |-> st.truncated,
              brk |-> FALSE]

\* CollectStep counting a page only when it is pushed whole: pageCount++ placed
\* after the maxRows check
CollectStepCutNotCounted(st, p) ==
    LET pr == PageRows(p)
        remaining == options.maxRows.v - Len(st.rows)
    IN  IF IsDefined(options.maxRows) /\ Len(pr) >= remaining
        THEN [rows |-> st.rows \o Slice(pr, remaining),
              pageCount |-> st.pageCount, truncated |-> TRUE, brk |-> TRUE]
        ELSE [rows |-> st.rows \o pr,
              pageCount |-> st.pageCount + 1, truncated |-> st.truncated,
              brk |-> FALSE]

\* one pass of the do-while body up to the maxRows check and the push
CollectStep(st, p) ==
    LET pr == PageRows(p)
        remaining == options.maxRows.v - Len(st.rows)
    IN  IF IsDefined(options.maxRows) /\ Len(pr) >= remaining
        THEN [rows |-> st.rows \o Slice(pr, remaining),
              pageCount |-> st.pageCount + 1, truncated |-> TRUE, brk |-> TRUE]
        ELSE [rows |-> st.rows \o pr,
              pageCount |-> st.pageCount + 1, truncated |-> st.truncated,
              brk |-> FALSE]

\* onPage called in front of the maxRows check, for the truncating page as well
OnPageCallsEveryPage(s, p) ==
    IF options.onPage THEN <<[page |-> p, total |-> Len(s.rows)]>> ELSE <<>>

\* the onPage call of a pass: none after the break, else onPage(page, rows.length)
OnPageCalls(s, p) ==
    IF options.onPage /\ ~s.brk
    THEN <<[page |-> p, total |-> Len(s.rows)]>>
    ELSE <<>>

CollectResult(s) ==
    [rows |-> s.rows, totalRows |-> Len(s.rows), pageCount |-> s.pageCount,
     truncated |-> s.truncated]

\* collect(id) is collectWith(id, row => row); the parser is applied by the pager
CallCollectWith ==
    /\ pc = "idle"
    /\ mode' = "collect"
    /\ rows' = <<>>
    /\ nextToken' = NoToken
    /\ pageCount' = 0
    /\ truncated' = FALSE
    /\ pagerLog' = <<ResetEvent>>
    /\ BeginFetch
    /\ count' = 0 /\ totalRows' = 0 /\ page' = 0 /\ rowIdx' = 0
    /\ result' = NoResult /\ error' = NoError
    /\ sleeps' = <<>> /\ onPageLog' = <<>> /\ batchLog' = <<>> /\ yielded' = <<>>
    /\ overlapped' = OtherRunning
    /\ UNCHANGED <<otherPc, otherToken>>
    /\ UNCHANGED <<rawOptions, options, chain>>

\* the loop body after the page arrived, with onPage (if any) returning
CollectPage ==
    /\ pc = "page"
    /\ mode = "collect"
    /\ LET s == CollectStep([rows |-> rows, pageCount |-> pageCount,
                             truncated |-> truncated], page)
       IN  /\ rows' = s.rows
           /\ pageCount' = s.pageCount
           /\ truncated' = s.truncated
           /\ onPageLog' = onPageLog \o OnPageCalls(s, page)
           /\ IF s.brk
              THEN /\ pc' = "done"
                   /\ result' = CollectResult(s)
                   /\ UNCHANGED <<nextToken, attempt, lastError, roundLog>>
              ELSE /\ nextToken' = PageToken(page)
                   /\ IF Truthy(PageToken(page))
                      THEN BeginFetch /\ result' = result
                      ELSE /\ pc' = "done"
                           /\ result' = CollectResult(s)
                           /\ UNCHANGED <<attempt, lastError, roundLog>>
    /\ UNCHANGED <<otherPc, otherToken, overlapped>>
    /\ UNCHANGED <<rawOptions, options, chain, mode, count, totalRows, page, rowIdx,
                   error, pagerLog, sleeps, batchLog, yielded>>

\* the loop body after the page arrived, with onPage throwing or rejecting
CollectPageOnPageThrows ==
    /\ pc = "page"
    /\ mode = "collect"
    /\ LET s == CollectStep([rows |-> rows, pageCount |-> pageCount,
                             truncated |-> truncated], page)
       IN  /\ OnPageCalls(s, page) # <<>>
           /\ rows' = s.rows
           /\ pageCount' = s.pageCount
           /\ truncated' = s.truncated
           /\ onPageLog' = onPageLog \o OnPageCalls(s, page)
    /\ pc' = "failed"
    /\ error' = CallbackError
    /\ UNCHANGED <<otherPc, otherToken, overlapped>>
    /\ UNCHANGED <<rawOptions, options, chain, mode, nextToken, count, totalRows,
                   page, rowIdx, attempt, lastError, result, pagerLog, roundLog,
                   sleeps, batchLog, yielded>>

\* ------------------------------------------------------------------ stream
\* a stream that is not a generator: the pager is reset when stream() is called
CallStreamEager ==
    /\ pc = "idle"
    /\ mode' = "stream"
    /\ pc' = "suspendedStart"
    /\ rows' = <<>> /\ nextToken' = NoToken /\ pageCount' = 0 /\ truncated' = FALSE
    /\ count' = 0 /\ totalRows' = 0 /\ page' = 0 /\ rowIdx' = 0
    /\ attempt' = 0 /\ lastError' = NoError
    /\ result' = NoResult /\ error' = NoError
    /\ pagerLog' = <<ResetEvent>> /\ roundLog' = <<>>
    /\ sleeps' = <<>> /\ onPageLog' = <<>> /\ batchLog' = <<>> /\ yielded' = <<>>
    /\ overlapped' = FALSE
    /\ UNCHANGED <<otherPc, otherToken>>
    /\ UNCHANGED <<rawOptions, options, chain>>

\* stream(id, parser) returns the generator object; no statement of its body runs
CallStream ==
    /\ pc = "idle"
    /\ mode' = "stream"
    /\ pc' = "suspendedStart"
    /\ rows' = <<>> /\ nextToken' = NoToken /\ pageCount' = 0 /\ truncated' = FALSE
    /\ count' = 0 /\ totalRows' = 0 /\ page' = 0 /\ rowIdx' = 0
    /\ attempt' = 0 /\ lastError' = NoError
    /\ result' = NoResult /\ error' = NoError
    /\ pagerLog' = <<>> /\ roundLog' = <<>>
    /\ sleeps' = <<>> /\ onPageLog' = <<>> /\ batchLog' = <<>> /\ yielded' = <<>>
    /\ overlapped' = FALSE
    /\ UNCHANGED <<otherPc, otherToken>>
    /\ UNCHANGED <<rawOptions, options, chain>>

\* the first next() without the pager reset
StreamStartNoReset ==
    /\ pc = "suspendedStart"
    /\ nextToken' = NoToken
    /\ count' = 0
    /\ BeginFetch
    /\ overlapped' = (overlapped \/ OtherRunning)
    /\ UNCHANGED <<otherPc, otherToken>>
    /\ UNCHANGED <<rawOptions, options, chain, mode, rows, pageCount, truncated,
                   totalRows, page, rowIdx, result, error, pagerLog, sleeps,
                   onPageLog, batchLog, yielded>>

\* the first next(): let nextToken; let count = 0; this.pager.reset(); first fetch
StreamStart ==
    /\ pc = "suspendedStart"
    /\ nextToken' = NoToken
    /\ count' = 0
    /\ pagerLog' = Append(pagerLog, ResetEvent)
    /\ BeginFetch
    /\ overlapped' = (overlapped \/ OtherRunning)
    /\ UNCHANGED <<otherPc, otherToken>>
    /\ UNCHANGED <<rawOptions, options, chain, mode, rows, pageCount, truncated,
                   totalRows, page, rowIdx, result, error, sleeps, onPageLog,
                   batchLog, yielded>>

\* the maxRows check in front of each yield
StreamLimitReached(c) == IsDefined(options.maxRows) /\ c >= options.maxRows.v

\* the for-of loop standing before row i of the page with c rows counted: return at
\* the limit, yield the row, or leave the loop for the page's nextToken
StreamLoop(i, c) ==
    /\ count' = c
    /\ IF i <= Len(PageRows(page))
       THEN IF StreamLimitReached(c)
            THEN /\ pc' = "done"
                 /\ UNCHANGED <<yielded, rowIdx, nextToken, attempt, lastError,
                                roundLog>>
            ELSE /\ yielded' = Append(yielded, PageRows(page)[i])
                 /\ rowIdx' = i
                 /\ pc' = "suspendedYield"
                 /\ UNCHANGED <<nextToken, attempt, lastError, roundLog>>
       ELSE /\ nextToken' = PageToken(page)
            /\ UNCHANGED <<yielded, rowIdx>>
            /\ IF Truthy(PageToken(page))
               THEN BeginFetch
               ELSE pc' = "done" /\ UNCHANGED <<attempt, lastError, roundLog>>

\* the page arrived: the for-of loop starts at its first row
StreamPage ==
    /\ pc = "page"
    /\ mode = "stream"
    /\ StreamLoop(1, count)
    /\ UNCHANGED <<otherPc, otherToken, overlapped>>
    /\ UNCHANGED <<rawOptions, options, chain, mode, rows, pageCount, truncated,
                   totalRows, page, result, error, pagerLog, sleeps, onPageLog,
                   batchLog>>

\* next() on a generator suspended at yield: count++, then the loop goes on
StreamNext ==
    /\ pc = "suspendedYield"
    /\ StreamLoop(rowIdx + 1, count + 1)
    /\ UNCHANGED <<otherPc, otherToken, overlapped>>
    /\ UNCHANGED <<rawOptions, options, chain, mode, rows, pageCount, truncated,
                   totalRows, page, result, error, pagerLog, sleeps, onPageLog,
                   batchLog>>

\* a generator with a finally block that resets the pager when the consumer leaves
StreamAbandonCleanup ==
    /\ pc = "suspendedYield"
    /\ pc' = "abandoned"
    /\ pagerLog' = Append(pagerLog, ResetEvent)
    /\ UNCHANGED <<otherPc, otherToken, overlapped>>
    /\ UNCHANGED <<rawOptions, options, chain, mode, rows, nextToken, pageCount,
                   truncated, count, totalRows, page, rowIdx, attempt, lastError,
                   result, error, roundLog, sleeps, onPageLog, batchLog,
                   yielded>>

\* the consumer takes no further element: it leaves the for await loop (which
\* finishes the generator at its yield) or drops the generator; no statement runs
StreamAbandon ==
    /\ pc = "suspendedYield"
    /\ pc' = "abandoned"
    /\ UNCHANGED <<otherPc, otherToken, overlapped>>
    /\ UNCHANGED <<rawOptions, options, chain, mode, rows, nextToken, pageCount,
                   truncated, count, totalRows, page, rowIdx, attempt, lastError,
                   result, error, pagerLog, roundLog, sleeps, onPageLog, batchLog,
                   yielded>>

\* ----------------------------------------------------------- processBatches
\* batchProcessor called after pageCount++: page indexes from 1
BatchArgsCountedFirst(p, n) == [rows |-> PageRows(p), pageIndex |-> n + 1]

\* the arguments of batchProcessor for page p when pageCount pages were counted
BatchArgs(p, n) == [rows |-> PageRows(p), pageIndex |-> n]

\* the check that stops only above the limit: totalRows > maxRows
BatchLimitPassed(t) == IsDefined(options.maxRows) /\ t > options.maxRows.v

\* the maxRows check after a page was delivered and counted
BatchLimitReached(t) == IsDefined(options.maxRows) /\ t >= options.maxRows.v

CallProcessBatches ==
    /\ pc = "idle"
    /\ mode' = "batch"
    /\ nextToken' = NoToken
    /\ pageCount' = 0
    /\ totalRows' = 0
    /\ pagerLog' = <<ResetEvent>>
    /\ BeginFetch
    /\ rows' = <<>> /\ truncated' = FALSE /\ count' = 0 /\ page' = 0 /\ rowIdx' = 0
    /\ result' = NoResult /\ error' = NoError
    /\ sleeps' = <<>> /\ onPageLog' = <<>> /\ batchLog' = <<>> /\ yielded' = <<>>
    /\ overlapped' = OtherRunning
    /\ UNCHANGED <<otherPc, otherToken>>
    /\ UNCHANGED <<rawOptions, options, chain>>

\* the loop body after the page arrived, with batchProcessor returning
BatchPage ==
    /\ pc = "page"
    /\ mode = "batch"
    /\ batchLog' = Append(batchLog, BatchArgs(page, pageCount))
    /\ pageCount' = pageCount + 1
    /\ totalRows' = totalRows + Len(PageRows(page))
    /\ IF BatchLimitReached(totalRows')
       THEN /\ pc' = "done"
            /\ result' = [totalRows |-> totalRows', pageCount |-> pageCount']
            /\ UNCHANGED <<nextToken, attempt, lastError, roundLog>>
       ELSE /\ nextToken' = PageToken(page)
            /\ IF Truthy(PageToken(page))
               THEN BeginFetch /\ result' = result
               ELSE /\ pc' = "done"
                    /\ result' = [totalRows |-> totalRows', pageCount |-> pageCount']
                    /\ UNCHANGED <<attempt, lastError, roundLog>>
    /\ UNCHANGED <<otherPc, otherToken, overlapped>>
    /\ UNCHANGED <<rawOptions, options, chain, mode, rows, truncated, count, page,
                   rowIdx, error, pagerLog, sleeps, onPageLog, yielded>>

\* batchProcessor called inside the try block of the retry loop: its error is caught
\* like a rejected fetch, slept on and retried
BatchPageThrowsRetried ==
    /\ pc = "page"
    /\ mode = "batch"
    /\ batchLog' = Append(batchLog, BatchArgs(page, pageCount))
    /\ lastError' = CallbackError
    /\ IF SleepsAfterFailure
       THEN pc' = "sleep" /\ attempt' = attempt
       ELSE pc' = "fetch" /\ attempt' = attempt + 1
    /\ UNCHANGED <<otherPc, otherToken, overlapped>>
    /\ UNCHANGED <<rawOptions, options, chain, mode, rows, nextToken, pageCount,
                   truncated, count, totalRows, page, rowIdx, result, error,
                   pagerLog, roundLog, sleeps, onPageLog, yielded>>

\* the loop body after the page arrived, with batchProcessor throwing or rejecting
BatchPageThrows ==
    /\ pc = "page"
    /\ mode = "batch"
    /\ batchLog' = Append(batchLog, BatchArgs(page, pageCount))
    /\ pc' = "failed"
    /\ error' = CallbackError
    /\ UNCHANGED <<otherPc, otherToken, overlapped>>
    /\ UNCHANGED <<rawOptions, options, chain, mode, rows, nextToken, pageCount,
                   truncated, count, totalRows, page, rowIdx, attempt, lastError,
                   result, pagerLog, roundLog, sleeps, onPageLog, yielded>>

\* the invocation is over (resolved, rejected, the generator finished or was
\* abandoned): the instance is free for the next call
Return ==
    /\ pc \in {"done", "failed", "abandoned"}
    /\ pc' = "idle"
    /\ UNCHANGED <<otherPc, otherToken, overlapped>>
    /\ UNCHANGED <<rawOptions, options, chain, mode, rows, nextToken, pageCount,
                   truncated, count, totalRows, page, rowIdx, attempt, lastError,
                   result, error, pagerLog, roundLog, sleeps, onPageLog, batchLog,
                   yielded>>

Next ==
    \/ CallCollectWith
    \/ CollectPage
    \/ CollectPageOnPageThrows
    \/ CallStream
    \/ StreamStart
    \/ StreamPage
    \/ StreamNext
    \/ StreamAbandon
    \/ CallProcessBatches
    \/ BatchPage
    \/ BatchPageThrows
    \/ FetchOk
    \/ FetchFail
    \/ Sleep
    \/ FetchExhausted
    \/ Return

Spec == Init /\ [][Next]_vars

\* ------------------------------------- a second invocation, same instance
\* A second call of collect, stream or processBatches on the same collector, as the
\* shared pager sees it: like the first it resets the pager and then fetches along
\* the token chain, on this.pager, the only pager of the instance.

\* the first invocation has begun its loop and has neither returned nor thrown; a
\* stream suspended at a yield is still in progress
FirstRunning == pc \in {"fetch", "sleep", "page", "suspendedYield"}

\* the second invocation begins: this.pager.reset()
OtherCall ==
    /\ otherPc = "idle"
    /\ otherPc' = "started"
    /\ otherToken' = NoToken
    /\ pagerLog' = Append(pagerLog, [ResetEvent EXCEPT !.by = Second])
    /\ overlapped' = (overlapped \/ FirstRunning)
    /\ UNCHANGED <<rawOptions, options, chain, mode, pc, rows, nextToken, pageCount,
                   truncated, count, totalRows, page, rowIdx, attempt, lastError,
                   result, error, roundLog, sleeps, onPageLog, batchLog, yielded>>

\* a page fetch of the second invocation: its first one, or the one its token asks for
OtherFetch ==
    /\ OtherRunning
    /\ otherPc = "started" \/ Truthy(otherToken)
    /\ otherPc' = "fetched"
    /\ otherToken' = PageToken(PagerFetch(otherToken))
    /\ pagerLog' =
          Append(pagerLog,
                 [FetchEvent(otherToken, TRUE, PagerFetch(otherToken))
                     EXCEPT !.by = Second])
    /\ UNCHANGED <<rawOptions, options, chain, mode, pc, rows, nextToken, pageCount,
                   truncated, count, totalRows, page, rowIdx, attempt, lastError,
                   result, error, roundLog, sleeps, onPageLog, batchLog, yielded,
                   overlapped>>

\* the second invocation is over: its loop ended, or its consumer stopped iterating
OtherReturn ==
    /\ otherPc = "fetched"
    /\ otherPc' = "returned"
    /\ UNCHANGED <<rawOptions, options, chain, mode, pc, rows, nextToken, pageCount,
                   truncated, count, totalRows, page, rowIdx, attempt, lastError,
                   result, error, pagerLog, roundLog, sleeps, onPageLog, batchLog,
                   yielded, otherToken, overlapped>>

\* the instance of the overlapping runs: one retry, onPage configured, no row limit,
\* pages of at most one row (the order of the pager calls depends on none of them)
InitOverlap ==
    /\ Init
    /\ rawOptions.retryCount = Num(1)
    /\ rawOptions.retryDelayMs = Absent
    /\ rawOptions.onPage
    /\ rawOptions.maxRows = Absent
    /\ \A i \in DOMAIN chain : chain[i] <= 1

\* one invocation of each kind, from its call to its end
NextOverlap ==
    \/ CallCollectWith
    \/ CollectPage
    \/ CollectPageOnPageThrows
    \/ CallStream
    \/ StreamStart
    \/ StreamPage
    \/ StreamNext
    \/ StreamAbandon
    \/ CallProcessBatches
    \/ BatchPage
    \/ BatchPageThrows
    \/ FetchOk
    \/ FetchFail
    \/ Sleep
    \/ FetchExhausted
    \/ OtherCall
    \/ OtherFetch
    \/ OtherReturn

SpecOverlap == InitOverlap /\ [][NextOverlap]_vars

\* ----------------------------------------------------- runs that go on
\* a statement of the running invocation: a settled pager call, a fired timer, a
\* callback that came back, or the next request of a consumer that drains its stream
Step ==
    \/ FetchOk
    \/ FetchFail
    \/ Sleep
    \/ FetchExhausted
    \/ CollectPage
    \/ CollectPageOnPageThrows
    \/ StreamStart
    \/ StreamPage
    \/ StreamNext
    \/ BatchPage
    \/ BatchPageThrows

\* the instances of the runs that go on: every maxRows, retryCount and chain, with
\* onPage configured and the default delay (the length of a sleep and the absence
\* of a callback take no branch of a loop)
InitLive ==
    /\ Init
    /\ rawOptions.onPage
    /\ rawOptions.retryDelayMs = Absent

\* the promises the invocation awaits settle, and the consumer of a stream keeps
\* asking until the sequence ends or it gives the sequence up
SpecLive == InitLive /\ [][Next]_vars /\ WF_vars(Step)

\* ------------------------------------------------------------ observations
\* the pages the fetches of a log returned, in fetch order
RECURSIVE OkPages(_)
OkPages(log) ==
    IF log = <<>>
    THEN <<>>
    ELSE (IF Head(log).op = "fetch" /\ Head(log).ok THEN <<Head(log).val>> ELSE <<>>)
         \o OkPages(Tail(log))

FetchedPages == OkPages(pagerLog)

\* the rows of a sequence of pages, one page after the other
RECURSIVE RowsOfPages(_)
RowsOfPages(ps) ==
    IF ps = <<>> THEN <<>> ELSE PageRows(Head(ps)) \o RowsOfPages(Tail(ps))

\* every row of the query, along the whole continuation-token chain
AllRows == RowsOfPages([i \in 1..Len(chain) |-> i])

CollectDone == mode = "collect" /\ pc = "done"
StreamDone == mode = "stream" /\ pc = "done"
BatchDone == mode = "batch" /\ pc = "done"

\* ----------------------------------------------------------------- claims
\* C1: with no maxRows configured, a collect that succeeded returns the rows of
\* every fetched page, concatenated in fetch order, totalRows equal to the length
\* of that concatenation, and truncated = false.
C1_CollectAllRows ==
    (CollectDone /\ ~IsDefined(options.maxRows)) =>
        /\ result.rows = RowsOfPages(FetchedPages)
        /\ result.totalRows = Len(RowsOfPages(FetchedPages))
        /\ result.truncated = FALSE

\* a collect without limit that returned two pages, both with rows
C1_Witness ==
    /\ CollectDone
    /\ ~IsDefined(options.maxRows)
    /\ Len(FetchedPages) = 2
    /\ chain[1] > 0
    /\ chain[2] > 0
    /\ result.totalRows = chain[1] + chain[2]

\* C2: with maxRows = M >= 0, a collect that succeeded returns exactly the first
\* min(M, N) rows of the concatenation of all pages, N being the number of rows
\* along the whole token chain; rows.length never exceeds M.
C2_CollectFirstMinRows ==
    (CollectDone /\ IsDefined(options.maxRows) /\ options.maxRows.v >= 0) =>
        /\ result.rows = SubSeq(AllRows, 1, Min(options.maxRows.v, Len(AllRows)))
        /\ Len(result.rows) = Min(options.maxRows.v, Len(AllRows))
        /\ Len(result.rows) <= options.maxRows.v

\* a collect cut in the middle of its second page
C2_Witness ==
    /\ CollectDone
    /\ IsDefined(options.maxRows)
    /\ Len(FetchedPages) = 2
    /\ options.maxRows.v = chain[1] + 1
    /\ chain[1] > 0
    /\ chain[2] = 2
    /\ Len(result.rows) = options.maxRows.v

\* C3: in the result of collect, truncated is true if and only if at least one row
\* of the last fetched page was left out of rows because of maxRows.  Stated for the
\* limits M >= 1, where the rows left out are the fetched rows beyond the first M.
C3_TruncatedIffRowLeftOut ==
    (CollectDone /\ IsDefined(options.maxRows) /\ options.maxRows.v >= 1) =>
        (result.truncated <=> Len(result.rows) < Len(RowsOfPages(FetchedPages)))

\* what collect returns when every fetch resolves: the loop of collectWith run over
\* the pager's pages from the token tok on
RECURSIVE RunCollect(_, _)
RunCollect(st, tok) ==
    LET p == PagerFetch(tok)
        s == CollectStep(st, p)
    IN  IF s.brk \/ ~Truthy(PageToken(p))
        THEN CollectResult(s)
        ELSE RunCollect(s, PageToken(p))

CollectWould ==
    RunCollect([rows |-> <<>>, pageCount |-> 0, truncated |-> FALSE], NoToken)

\* C4: for every maxRows setting (set or unset), a fully drained stream yields
\* exactly the row sequence collect returns for the same pager and configuration
\* (the claim's bound on the number of elements is part of the lemma that follows).
C4_StreamEqualsCollect == StreamDone => yielded = CollectWould.rows

\* with maxRows unset or not negative the two sequences agree, and the stream never
\* yields more than maxRows elements
StreamEqualsCollectFromZero ==
    (StreamDone /\ (IsDefined(options.maxRows) => options.maxRows.v >= 0)) =>
        /\ yielded = CollectWould.rows
        /\ IsDefined(options.maxRows) => Len(yielded) <= options.maxRows.v

\* collect returns what the loop run over the pager's pages gives
CollectIsRun == CollectDone => result = CollectWould

\* the failed attempts of the current fetchPageWithRetry call
RoundFailures == {i \in DOMAIN roundLog : ~roundLog[i].ok}

\* C5: for each page fetch, whatever earlier pages consumed: the pager's fetch is
\* invoked with the same continuation token each time; a page is obtained after k
\* failures exactly when k <= retryCount, with k + 1 invocations; the call fails
\* only after retryCount + 1 invocations that all failed, with the error of the
\* last attempt, unwrapped.
C5_RetryPerPage ==
    IsDefined(options.retryCount) =>
        /\ \A i \in DOMAIN roundLog : roundLog[i].token = roundLog[1].token
        /\ pc \in {"fetch", "sleep", "page"} =>
              \A i \in DOMAIN roundLog : roundLog[i].token = nextToken
        /\ pc \in {"fetch", "sleep"} =>
              /\ RoundFailures = DOMAIN roundLog
              /\ Len(roundLog) <= options.retryCount.v + 1
        /\ pc = "page" =>
              /\ RoundFailures = 1..(Len(roundLog) - 1)
              /\ roundLog[Len(roundLog)].ok
              /\ Cardinality(RoundFailures) <= options.retryCount.v
              /\ Len(roundLog) = Cardinality(RoundFailures) + 1
        /\ (pc = "failed" /\ error # CallbackError) =>
              /\ RoundFailures = DOMAIN roundLog
              /\ Len(roundLog) = options.retryCount.v + 1
              /\ error = roundLog[Len(roundLog)].val

\* the second page's fetch fails for good after the first page needed a retry
C5_Witness ==
    /\ pc = "failed"
    /\ error # CallbackError
    /\ options.retryCount.kind = "number"
    /\ options.retryCount.v = 1
    /\ Len(roundLog) = 2
    /\ Len(pagerLog) = 5
    /\ Len(FetchedPages) = 1
    /\ roundLog[1].token # NoToken

\* the row counts of the pages handed to batchProcessor, summed
RECURSIVE DeliveredRows(_)
DeliveredRows(log) ==
    IF log = <<>> THEN 0 ELSE Len(Head(log).rows) + DeliveredRows(Tail(log))

\* C6: in processBatches, batchProcessor is invoked exactly once per fetched page,
\* in fetch order, with pageIndex 0, 1, 2, ...; on success pageCount is the number
\* of invocations and totalRows the sum of the lengths of the row arrays passed.
C6_BatchPerPage ==
    mode = "batch" =>
        /\ Len(batchLog) = Len(FetchedPages) - (IF pc = "page" THEN 1 ELSE 0)
        /\ \A i \in DOMAIN batchLog :
              /\ batchLog[i].pageIndex = i - 1
              /\ batchLog[i].rows = PageRows(FetchedPages[i])
        /\ pc = "done" =>
              /\ result.pageCount = Len(batchLog)
              /\ result.totalRows = DeliveredRows(batchLog)

\* a processBatches that delivered two pages with rows and returned
C6_Witness ==
    /\ BatchDone
    /\ Len(batchLog) = 2
    /\ chain[1] > 0
    /\ chain[2] > 0
    /\ result.totalRows = chain[1] + chain[2]

\* the rows delivered by the first n batchProcessor calls
DeliveredBefore(n) == DeliveredRows(SubSeq(batchLog, 1, n))

\* a fetch was issued after the last batchProcessor call of the log
FetchAfterLastDelivery ==
    \/ pc \in {"fetch", "sleep", "page"}
    \/ pc = "failed" /\ error # CallbackError

\* C7 as stated, for every maxRows = M, negative ones included: every fetched page is passed to
\* batchProcessor whole; processing stops right after the first page whose delivery
\* brings the cumulative row count to M or more, with no later fetch; totalRows
\* exceeds M by at most the row count of the last delivered page.
C7_BatchLimitAnyLimit ==
    (mode = "batch" /\ IsDefined(options.maxRows)) =>
        /\ \A i \in DOMAIN batchLog : batchLog[i].rows = PageRows(FetchedPages[i])
        /\ \A i \in DOMAIN batchLog :
              (i < Len(batchLog) \/ FetchAfterLastDelivery) =>
                  DeliveredBefore(i) < options.maxRows.v
        /\ (pc = "done" /\ result.totalRows > options.maxRows.v) =>
              result.totalRows - options.maxRows.v
                  <= Len(batchLog[Len(batchLog)].rows)

\* C7, amended to M >= 0: every fetched page is passed to batchProcessor whole;
\* processing stops right after the first page whose delivery brings the cumulative
\* row count to M or more, with no later fetch; totalRows exceeds M by at most the
\* row count of the last delivered page.
C7_BatchLimit ==
    (mode = "batch" /\ IsDefined(options.maxRows) /\ options.maxRows.v >= 0) =>
        /\ \A i \in DOMAIN batchLog : batchLog[i].rows = PageRows(FetchedPages[i])
        /\ \A i \in DOMAIN batchLog :
              (i < Len(batchLog) \/ FetchAfterLastDelivery) =>
                  DeliveredBefore(i) < options.maxRows.v
        /\ (pc = "done" /\ result.totalRows > options.maxRows.v) =>
              result.totalRows - options.maxRows.v
                  <= Len(batchLog[Len(batchLog)].rows)

\* a processBatches that passed its limit on the first of two pages and stopped
C7_Witness ==
    /\ BatchDone
    /\ IsDefined(options.maxRows)
    /\ options.maxRows.v = 1
    /\ Len(chain) = 2
    /\ chain[1] = 2
    /\ Len(batchLog) = 1
    /\ result.totalRows = 2

\* C8: in collect with onPage configured, onPage is invoked exactly once for every
\* fetched page that is not the truncating one, in fetch order, with that page and
\* the number of rows collected once it was appended, and never for the truncating
\* page; on return the invocations number pageCount when truncated is false and
\* pageCount - 1 when it is true.
C8_OnPagePerPage ==
    (mode = "collect" /\ options.onPage) =>
        /\ Len(onPageLog) =
              Len(FetchedPages) - (IF pc = "page" \/ truncated THEN 1 ELSE 0)
        /\ \A i \in DOMAIN onPageLog :
              /\ onPageLog[i].page = FetchedPages[i]
              /\ onPageLog[i].total = Len(RowsOfPages(SubSeq(FetchedPages, 1, i)))
        /\ pc = "done" =>
              Len(onPageLog) =
                  result.pageCount - (IF result.truncated THEN 1 ELSE 0)

\* a collect with onPage that was cut on its second page: one onPage call
C8_Witness ==
    /\ CollectDone
    /\ options.onPage
    /\ result.truncated
    /\ result.pageCount = 2
    /\ Len(onPageLog) = 1
    /\ onPageLog[1].total > 0

\* C9: every invocation of collect, collectWith and processBatches, and every
\* started iteration of stream, calls the pager's reset exactly once, before its
\* first fetch; no reset happens between two fetches of the invocation.
C9_ResetOnceFirst ==
    (mode # "none" /\ pc # "suspendedStart") =>
        /\ Len(pagerLog) >= 1
        /\ pagerLog[1].op = "reset"
        /\ \A i \in 2..Len(pagerLog) : pagerLog[i].op = "fetch"

\* a drained stream that fetched two pages after its reset
C9_Witness ==
    /\ StreamDone
    /\ Len(FetchedPages) = 2
    /\ pagerLog[1].op = "reset"

\* the last page a fetch returned before call i of the log, 0 when there is none
LastPageBefore(i) ==
    LET ps == OkPages(SubSeq(pagerLog, 1, i - 1))
    IN  IF ps = <<>> THEN 0 ELSE ps[Len(ps)]

\* C10: in every mode the first fetch carries no token, every later fetch carries
\* the token of the page fetched immediately before it, and after a page without
\* a continuation token no further fetch is issued, whatever the row limit.
C10_TokenChain ==
    \A i \in DOMAIN pagerLog :
        pagerLog[i].op = "fetch" =>
            IF LastPageBefore(i) = 0
            THEN pagerLog[i].token = NoToken
            ELSE /\ PageToken(LastPageBefore(i)) # NoToken
                 /\ pagerLog[i].token = PageToken(LastPageBefore(i))

\* a processBatches that followed the token of its first page, retried the second
\* fetch with it and ended on the page without token
C10_Witness ==
    /\ BatchDone
    /\ Len(pagerLog) = 4
    /\ pagerLog[3].token = 2
    /\ ~pagerLog[3].ok
    /\ pagerLog[4].token = 2
    /\ pagerLog[4].ok

\* the failing operation came after at least one page had been fetched
FailedAfterFirstPage == pc = "failed" /\ Len(FetchedPages) >= 1

\* the promise of the call has not been fulfilled: no result object was returned
NothingReturned == "pending" \in DOMAIN result

CallbackLog == IF mode = "batch" THEN batchLog ELSE onPageLog

\* the pager calls of the invocation that rejected
FailedFetches == {i \in DOMAIN pagerLog : pagerLog[i].op = "fetch" /\ ~pagerLog[i].ok}

\* the invocation failed although its last pager call returned a page: the failure
\* is the callback's
FailedInCallback ==
    /\ pc = "failed"
    /\ pagerLog # <<>>
    /\ pagerLog[Len(pagerLog)].op = "fetch"
    /\ pagerLog[Len(pagerLog)].ok

\* C12: an error raised by onPage in collect or by batchProcessor in processBatches
\* reaches the caller as it is and ends the loop on the spot, whatever retryCount:
\* the callback was called once per page and not again, every sleep of the
\* invocation follows a rejected fetch, and the last pager call is the fetch of the
\* page handed to the failing callback.
C12_CallbackErrorAborts ==
    FailedInCallback =>
        /\ mode \in {"collect", "batch"}
        /\ error = CallbackError
        /\ Len(CallbackLog) = Len(FetchedPages)
        /\ mode = "collect" =>
              onPageLog[Len(onPageLog)].page = pagerLog[Len(pagerLog)].val
        /\ mode = "batch" =>
              batchLog[Len(batchLog)].rows = PageRows(pagerLog[Len(pagerLog)].val)
        /\ Len(sleeps) = Cardinality(FailedFetches)

\* a processBatches with retryCount = 1 whose batchProcessor failed on the second
\* page, after a fetch had been retried once
C12_Witness ==
    /\ mode = "batch"
    /\ FailedInCallback
    /\ error = CallbackError
    /\ options.retryCount = Num(1)
    /\ Len(batchLog) = 2
    /\ Len(sleeps) = 1

\* an option left unset: its key is missing or holds undefined
Unset(x) == x.kind \in {"absent", "undefined"}

\* a fetch of the invocation rejected, or its callback failed
SomethingFailed == FailedFetches # {} \/ error = CallbackError

\* C13: whenever retryCount (resp. retryDelayMs) is left unset, by a missing key or
\* by the value undefined, the resolved configuration has retryCount = 0 (resp.
\* retryDelayMs = 1000); so a finished call has attempted every page fetch exactly
\* once, and has failed only if a fetch rejected or a callback failed.
C13_UnsetMeansDefault ==
    (pc \in {"done", "failed"}) =>
        /\ Unset(rawOptions.retryCount) =>
              /\ options.retryCount = Num(DefaultRetryCount)
              /\ Len(pagerLog) = 1 + Len(FetchedPages) + Cardinality(FailedFetches)
              /\ Cardinality(FailedFetches) <= 1
              /\ pc = "failed" => SomethingFailed
        /\ Unset(rawOptions.retryDelayMs) =>
              options.retryDelayMs = Num(DefaultRetryDelayMs)

\* the fetch calls made to the pager during the invocation, rejected ones included
FetchCalls == {i \in DOMAIN pagerLog : pagerLog[i].op = "fetch"}

\* C14 as stated: in the result of a collect that succeeded, pageCount is the
\* number of fetch calls made to the pager during the invocation.
C14_PageCountIsFetchCalls ==
    CollectDone => result.pageCount = Cardinality(FetchCalls)

\* C14, amended: in the result of a collect that succeeded, pageCount is the number
\* of fetch calls that returned a page, the truncating page included; a rejected
\* call that was retried is a fetch call but adds nothing to pageCount.
C14_PageCountIsPagesFetched ==
    CollectDone =>
        /\ result.pageCount = Len(FetchedPages)
        /\ result.pageCount = Cardinality(FetchCalls) - Cardinality(FailedFetches)

\* a collect cut on its second page, one of whose fetches had to be retried
C14_Witness ==
    /\ CollectDone
    /\ result.truncated
    /\ result.pageCount = 2
    /\ Cardinality(FetchCalls) = 3

\* the rows the invocation has accumulated (collect), yielded (stream) or handed
\* to batchProcessor (processBatches) so far
RowsSoFar ==
    CASE mode = "collect" -> Len(rows)
      [] mode = "stream" -> Len(yielded)
      [] mode = "batch" -> DeliveredRows(batchLog)
      [] OTHER -> 0

\* a page fetch has been issued and the loop has not yet looked at its page
FetchIssued == pc \in {"fetch", "sleep", "page"} /\ roundLog # <<>>

\* C15: in collect, stream and processBatches with maxRows = M >= 1, once the rows
\* accumulated, yielded or delivered have reached M no further page fetch is
\* issued, even when the last fetched page carries a continuation token.
C15_NoFetchAfterLimit ==
    (IsDefined(options.maxRows) /\ options.maxRows.v >= 1 /\ FetchIssued) =>
        RowsSoFar < options.maxRows.v

\* C16: with onPage configured, every iteration of the pagination loop of collect,
\* of stream and of processBatches invokes onPage for the page it fetched: a call
\* that succeeded without being cut by maxRows has one onPage call per fetched
\* page, in fetch order.
C16_OnPageInEveryMode ==
    (options.onPage /\ pc = "done" /\ ~truncated) =>
        /\ Len(onPageLog) = Len(FetchedPages)
        /\ \A i \in DOMAIN onPageLog : onPageLog[i].page = FetchedPages[i]

\* C17: in collect with maxRows <= 0, remaining is zero or negative when the first
\* page arrives: no row of it is appended, the page is counted, truncated is set
\* and the loop stops; collect has made one fetch and returns empty rows with
\* pageCount = 1.
C17_NothingLeftTakesNothing ==
    (CollectDone /\ IsDefined(options.maxRows) /\ options.maxRows.v <= 0) =>
        /\ result.rows = <<>>
        /\ result.pageCount = 1
        /\ result.truncated
        /\ Len(FetchedPages) = 1

\* the rejected attempts of the current page fetch
RoundFailed == Cardinality(RoundFailures)

\* the sleeps made during the current page fetch
RoundSleeps ==
    Cardinality({k \in DOMAIN sleeps : sleeps[k].after > Len(pagerLog) - Len(roundLog)})

\* C18: within a page fetch with retry every sleep lasts retryDelayMs and directly
\* follows a rejected attempt, at most one per attempt; a rejected attempt is
\* followed by another attempt only after its sleep has finished, and a finished
\* sleep is followed by another attempt; so for f rejected attempts the sleeps
\* number min(f, retryCount), with none after the last rejected attempt and none
\* after a successful one.
C18_SleepBetweenAttempts ==
    /\ \A k \in DOMAIN sleeps :
          /\ sleeps[k].ms = options.retryDelayMs
          /\ sleeps[k].after \in FailedFetches
          /\ \A l \in DOMAIN sleeps : k < l => sleeps[k].after < sleeps[l].after
    /\ \A i \in FailedFetches :
          IF i < Len(pagerLog)
          THEN /\ \E k \in DOMAIN sleeps : sleeps[k].after = i
               /\ pagerLog[i + 1].op = "fetch"
               /\ pagerLog[i + 1].token = pagerLog[i].token
          ELSE (\E k \in DOMAIN sleeps : sleeps[k].after = i) =>
                  pc = "fetch" /\ MayAttempt
    /\ (options.retryCount.kind = "number" /\ pc # "sleep") =>
          RoundSleeps = Min(RoundFailed, options.retryCount.v)

\* a page fetch with retryCount = 1 given up after two rejected attempts, with one
\* sleep in between and none after the second
C18_Witness ==
    /\ pc = "failed"
    /\ error # CallbackError
    /\ options.retryCount = Num(1)
    /\ RoundFailed = 2
    /\ RoundSleeps = 1
    /\ sleeps[Len(sleeps)].after = Len(pagerLog) - 1

\* the last pager call returned the page of the element the consumer took last
LastCallGaveLastElement ==
    /\ yielded # <<>>
    /\ pagerLog # <<>>
    /\ pagerLog[Len(pagerLog)].op = "fetch"
    /\ pagerLog[Len(pagerLog)].ok
    /\ pagerLog[Len(pagerLog)].val = yielded[Len(yielded)][1]

\* C19: stream is lazy. Before the consumer's first request the pager has been
\* neither reset nor asked for a page; while a page is being fetched the consumer
\* holds every row of the pages fetched before it and waits for one more; and
\* while the consumer holds its last element without asking for another, or after
\* it abandoned the sequence, the last pager call is the fetch of the page that
\* element came from.
C19_StreamLazy ==
    mode = "stream" =>
        /\ pc = "suspendedStart" => pagerLog = <<>>
        /\ pc \in {"fetch", "sleep"} => yielded = RowsOfPages(FetchedPages)
        /\ pc = "page" =>
              yielded = RowsOfPages(SubSeq(FetchedPages, 1, Len(FetchedPages) - 1))
        /\ pc \in {"suspendedYield", "abandoned"} => LastCallGaveLastElement

\* a consumer that took the first row of a two-row page with a continuation token
\* and abandoned the stream: one reset and one fetch
C19_Witness ==
    /\ mode = "stream"
    /\ pc = "abandoned"
    /\ Len(yielded) = 1
    /\ chain[1] = 2
    /\ Len(chain) = 2
    /\ Len(pagerLog) = 2

\* a call of the second invocation lies between two pager calls of the first
Interleaved ==
    \E i, j, k \in DOMAIN pagerLog :
        /\ i < j
        /\ j < k
        /\ pagerLog[i].by = First
        /\ pagerLog[j].by = Second
        /\ pagerLog[k].by = First

\* C20: two invocations on one collector instance share its pager. As long as they
\* were never in progress at the same time, the pager calls of the first are one
\* reset followed only by its own fetches, with no call of the second in between;
\* when they overlap, a reset or fetch of the second can fall between the first
\* fetch of the first invocation and its last.
C20_IsolatedUnlessOverlapped == ~overlapped => ~Interleaved

\* a collect whose first and second fetch have the reset of a second invocation
\* between them
C20_Witness ==
    /\ overlapped
    /\ mode = "collect"
    /\ \E i, j, k \in DOMAIN pagerLog :
          /\ i < j
          /\ j < k
          /\ pagerLog[i] = FetchEvent(NoToken, TRUE, 1)
          /\ pagerLog[j].by = Second
          /\ pagerLog[j].op = "reset"
          /\ pagerLog[k] = FetchEvent(2, TRUE, 2)

\* an invocation has been made and has not come to its end
Running == pc \in {"suspendedStart", "fetch", "sleep", "page", "suspendedYield"}

\* the invocation ended with a result or an error, or its stream ended; a stream
\* the consumer gave up was not drained
Completed == pc \in {"done", "failed", "abandoned"}

\* with a numeric retryCount, the fetch calls made so far are at most the pages of
\* the chain times retryCount + 1
FetchBound ==
    options.retryCount.kind = "number" =>
        Cardinality(FetchCalls) <= Len(chain) * (options.retryCount.v + 1)

\* C21: on a finite token chain and with a finite retryCount >= 0, every collect,
\* every processBatches and every stream that is drained comes to its end, with a
\* result or with an error, and none issues more fetch calls than the number of
\* pages of the chain times retryCount + 1.
C21_TerminatesWithinBound == [](FetchBound) /\ (Running ~> Completed)

\* a call on a chain of two pages with retryCount = 1 that used up the bound: four
\* fetch calls, the last two rejected
C21_Witness ==
    /\ pc = "failed"
    /\ options.retryCount = Num(1)
    /\ Len(chain) = 2
    /\ Cardinality(FetchCalls) = 4
    /\ Cardinality(FailedFetches) = 3

====
